---- MODULE Spec2Model ----
(***************************************************************************)
(* Tick-scheduling engine of the unattended-agent benchmark: the action,   *)
(* event and objective state machines (core/action.py, core/event.py,      *)
(* core/objective.py), Engine.step and Engine.execute_action               *)
(* (core/engine.py) and the two-loop ScenarioRunner.run                    *)
(* (core/scenario_runner.py).                                              *)
(***************************************************************************)
EXTENDS Integers, Sequences, FiniteSets, TLC

VARIABLES
    current_tick,   \* SimulationState.current_tick
    tree_growth,    \* SimpleSimulationState.tree_growth (domain state)
    actions,        \* Engine.actions
    events,         \* Engine.events
    objectives,     \* Engine.objectives
    system_state,   \* SystemStateProvider.state
    lock,           \* the runner's threading.Lock: "free" or the holder
    pc_sim,         \* position of _simulation_loop
    pc_agent,       \* position of _agent_loop
    ct,             \* _agent_loop's local ct (tick of the observation)
    parsed_action,  \* _agent_loop's local parsed_action
    action_registry, \* Scenario.action_registry
    observation,    \* _agent_loop's local observation
    observation_policy \* Scenario.observation_policy

engine_vars == <<current_tick, tree_growth, actions, events, objectives, system_state>>
runner_vars == <<lock, pc_sim, pc_agent, ct, parsed_action, observation>>
scenario_vars == <<action_registry, observation_policy>>
vars == <<current_tick, tree_growth, actions, events, objectives, system_state,
          lock, pc_sim, pc_agent, ct, parsed_action, action_registry,
          observation, observation_policy>>

----------------------------------------------------------------------------
\* Bounds of the model.

\* ScenarioRunnerConfig.max_ticks of the checked runs.
MaxTicks == 5
\* Most actions the engine's list holds (requests accepted in one run).
MaxActions == 3

----------------------------------------------------------------------------
\* Values.

\* Python's None for an optional tick.
NoTick == -1
\* Python's None for Action.concurrency_tag.
NoTag == "None"

NOT_STARTED == "not_started"
IN_PROGRESS == "in_progress"
STOPPED == "stopped"
COMPLETED == "completed"
FAILED == "failed"

PRESENT_ONLY == "present_only"
OMNISCIENT == "omniscient"

\* An action class: the class-level fields of an Action subclass. boost is the
\* amount one step() of the action adds to tree_growth.
ActionClass(name, tag, prio, required, boost) ==
    [name |-> name, concurrency_tag |-> tag, priority |-> prio,
     ticks_required |-> required, boost |-> boost]

\* The built-in idle action.
NoOpAction == ActionClass("do_nothing", NoTag, 0, 1, 0)

\* An action registry with two classes sharing a tag at different priorities,
\* one with another tag and one without a tag.
FullRegistry ==
    { ActionClass("Fertilize", "plant_care", 1, 3, 1),
      ActionClass("WaterTrees", "plant_care", 2, 2, 1),
      ActionClass("Spray", "pest_control", 3, 1, 0),
      ActionClass("Inspect", NoTag, 3, 2, 0) }

\* An action registry with one class.
SmallRegistry == { ActionClass("Fertilize", "plant_care", 1, 3, 1) }

\* An action registry with the two classes of the simple scenario, which share
\* a tag at different priorities.
PairRegistry ==
    { ActionClass("Fertilize", "plant_care", 1, 3, 1),
      ActionClass("WaterTrees", "plant_care", 2, 2, 1) }

\* action_registry[NoOpAction.get_tool_name()] = NoOpAction: the registry the
\* agent loop looks tool names up in.
ToolRegistry(registry) == registry \cup {NoOpAction}

\* action_cls(**parameters): a fresh instance, status NotStarted.
NewAction(cls) ==
    [name |-> cls.name, status |-> NOT_STARTED,
     ticks_required |-> cls.ticks_required,
     tick_started |-> NoTick, tick_completed |-> NoTick, tick_stopped |-> NoTick,
     concurrency_tag |-> cls.concurrency_tag, priority |-> cls.priority,
     boost |-> cls.boost, steps |-> 0]

\* An Event instance as constructed for a scenario. effect is what one step()
\* adds to tree_growth (BadWeatherEvent: -severity, GoodWeatherEvent: +boost).
NewEvent(name, start, duration, awareness, effect) ==
    [name |-> name, tick_start |-> start, tick_duration |-> duration,
     status |-> NOT_STARTED, tick_started |-> NoTick, tick_completed |-> NoTick,
     awareness |-> awareness, effect |-> effect, steps |-> 0]

\* An Objective instance as constructed for a scenario. max_ticks is
\* GrowTreeQuicklyObjective.max_ticks; GrowTreesObjective has none (NoTick).
NewObjective(name, start, target, deadline) ==
    [name |-> name, tick_start |-> start, tick_done |-> NoTick,
     status |-> NOT_STARTED, target_growth |-> target, max_ticks |-> deadline]

----------------------------------------------------------------------------
\* core/action.py

\* ActionStart recording the tick after the step that starts the action.
ActionStart_NextTick(a, tick) ==
    [a EXCEPT !.status = IN_PROGRESS,
              !.tick_started = IF a.tick_started = NoTick THEN tick + 1 ELSE a.tick_started]

ActionStart(a, tick) ==
    [a EXCEPT !.status = IN_PROGRESS,
              !.tick_started = IF a.tick_started = NoTick THEN tick ELSE a.tick_started]

\* ActionStop forgetting to record tick_stopped.
ActionStop_NoTick(a, tick) == [a EXCEPT !.status = STOPPED]

ActionStop(a, tick) ==
    [a EXCEPT !.status = STOPPED, !.tick_stopped = tick]

\* ActionComplete clearing tick_started.
ActionComplete_ClearsStart(a, tick) ==
    [a EXCEPT !.status = COMPLETED, !.tick_completed = tick, !.tick_started = NoTick]

ActionComplete(a, tick) ==
    [a EXCEPT !.status = COMPLETED, !.tick_completed = tick]

\* ActionHasElapsedDuration counting one tick too many.
ActionHasElapsedDuration_OffByOne(a, tick) ==
    IF a.tick_started = NoTick THEN FALSE
    ELSE (tick - a.tick_started + 2) >= a.ticks_required

ActionHasElapsedDuration(a, tick) ==
    IF a.tick_started = NoTick THEN FALSE
    ELSE (tick - a.tick_started + 1) >= a.ticks_required

\* The kind-specific step(): FertilizeAction.step / WaterTreesAction.step add
\* to tree_growth, NoOpAction.step does nothing. steps counts the invocations.
ActionStep(a) == [a EXCEPT !.steps = a.steps + 1]

----------------------------------------------------------------------------
\* core/event.py

EventStart(e, tick) ==
    [e EXCEPT !.status = IN_PROGRESS, !.tick_started = tick]

EventComplete(e, tick) ==
    [e EXCEPT !.status = COMPLETED, !.tick_completed = tick]

\* EventHasElapsedDuration not counting the tick the event started in.
EventHasElapsedDuration_Late(e, tick) ==
    IF e.tick_started = NoTick THEN FALSE
    ELSE (tick - e.tick_started) >= e.tick_duration

\* EventHasElapsedDuration requiring more than tick_duration elapsed ticks.
EventHasElapsedDuration_Strict(e, tick) ==
    IF e.tick_started = NoTick THEN FALSE
    ELSE (tick - e.tick_started + 1) > e.tick_duration

EventHasElapsedDuration(e, tick) ==
    IF e.tick_started = NoTick THEN FALSE
    ELSE (tick - e.tick_started + 1) >= e.tick_duration

\* The kind-specific step() (affect_environment); steps counts the invocations.
EventStep(e) == [e EXCEPT !.steps = e.steps + 1]

----------------------------------------------------------------------------
\* core/objective.py and the objective classes of scripts/simple_scenario.py

ObjectiveStart(o) == [o EXCEPT !.status = IN_PROGRESS]

IsCompleted(o, growth) == growth >= o.target_growth

\* is_failed of GrowTreeQuicklyObjective and GrowTreesObjective; with them, of
\* DeadlineObjective, a subclass of the abstract Objective given as input
\* whose is_failed (past max_ticks) does not exclude is_completed.
IsFailed(o, growth, tick) ==
    IF o.name = "GrowTreeQuicklyObjective"
    THEN tick > o.max_ticks /\ growth < o.target_growth
    ELSE IF o.name = "DeadlineObjective"
    THEN tick > o.max_ticks
    ELSE FALSE

\* CheckCompletion asking is_failed before is_completed.
CheckCompletion_FailureFirst(o, growth, tick) ==
    IF o.status # IN_PROGRESS THEN o
    ELSE IF IsFailed(o, growth, tick)
         THEN [o EXCEPT !.status = FAILED, !.tick_done = tick]
    ELSE IF IsCompleted(o, growth)
         THEN [o EXCEPT !.status = COMPLETED, !.tick_done = tick]
    ELSE o

CheckCompletion(o, growth, tick) ==
    IF o.status # IN_PROGRESS THEN o
    ELSE IF IsCompleted(o, growth)
         THEN [o EXCEPT !.status = COMPLETED, !.tick_done = tick]
    ELSE IF IsFailed(o, growth, tick)
         THEN [o EXCEPT !.status = FAILED, !.tick_done = tick]
    ELSE o

----------------------------------------------------------------------------
\* core/engine.py: summaries and the SystemState snapshot

Max(x, y) == IF x >= y THEN x ELSE y

RECURSIVE SeqMax(_)
\* max(...) over a non-empty sequence of integers.
SeqMax(s) ==
    IF Len(s) = 1 THEN s[1] ELSE Max(s[1], SeqMax(Tail(s)))

RECURSIVE SelectIndices(_, _)
\* A list comprehension's filter: the indices i..Len(keep) at which keep is
\* TRUE, in list order.
SelectIndices(keep, i) ==
    IF i > Len(keep) THEN <<>>
    ELSE (IF keep[i] THEN <<i>> ELSE <<>>) \o SelectIndices(keep, i + 1)

BuildActionSummary(a, tick) ==
    LET ticks_elapsed == IF a.tick_started = NoTick THEN 0
                         ELSE Max(tick - a.tick_started + 1, 0)
        ticks_remaining == Max(a.ticks_required - ticks_elapsed, 0)
    IN [name |-> a.name, status |-> a.status,
        concurrency_tag |-> a.concurrency_tag, priority |-> a.priority,
        tick_started |-> a.tick_started, ticks_required |-> a.ticks_required,
        ticks_elapsed |-> ticks_elapsed, ticks_remaining |-> ticks_remaining,
        tick_completed |-> a.tick_completed, tick_stopped |-> a.tick_stopped,
        parameters |-> [boost |-> a.boost]]

BuildEventSummary(e, tick) ==
    LET ticks_elapsed == IF e.tick_started = NoTick THEN 0
                         ELSE Max(tick - e.tick_started + 1, 0)
        ticks_remaining == Max(e.tick_duration - ticks_elapsed, 0)
        info == IF e.awareness = OMNISCIENT
                THEN [tick_start |-> e.tick_start, tick_duration |-> e.tick_duration,
                      tick_started |-> e.tick_started,
                      tick_completed |-> e.tick_completed,
                      ticks_elapsed |-> ticks_elapsed,
                      ticks_remaining |-> ticks_remaining]
                ELSE [tick_started |-> e.tick_started,
                      ticks_elapsed |-> ticks_elapsed]
    IN [name |-> e.name, status |-> e.status, awareness |-> e.awareness,
        info |-> info, parameters |-> [effect |-> e.effect]]

BuildObjectiveSummary(o, tick) ==
    LET ticks_elapsed == IF tick < o.tick_start THEN 0
                         ELSE Max(tick - o.tick_start + 1, 0)
    IN [name |-> o.name, status |-> o.status, tick_start |-> o.tick_start,
        tick_done |-> o.tick_done, ticks_elapsed |-> ticks_elapsed,
        parameters |-> [target_growth |-> o.target_growth, max_ticks |-> o.max_ticks]]

\* IsRunning taking every action that has not been stopped as running.
IsRunning_NotStopped(a) == a.status # STOPPED

\* The filter of running_actions.
IsRunning(a) == a.status = IN_PROGRESS

\* IsObservable treating a PresentOnly event as an Omniscient one.
IsObservable_UntilCompleted(e) == e.status # COMPLETED

\* The filter of the snapshot's events.
IsObservable(e) ==
    \/ e.awareness = OMNISCIENT /\ e.status # COMPLETED
    \/ e.awareness = PRESENT_ONLY /\ e.status = IN_PROGRESS

\* SystemState(): the snapshot as constructed. last_action_feedback is a list
\* of at most one ActionFeedback (empty: None).
EmptySystemState ==
    [running_actions |-> <<>>, events |-> <<>>, objectives |-> <<>>,
     last_action_feedback |-> <<>>]

\* RefreshSystemState building the snapshot anew, feedback included.
RefreshSystemState_DropsFeedback(sys, acts, evts, objs, tick) ==
    LET ra == SelectIndices([k \in 1..Len(acts) |-> IsRunning(acts[k])], 1)
        oe == SelectIndices([k \in 1..Len(evts) |-> IsObservable(evts[k])], 1)
    IN [running_actions |-> [k \in 1..Len(ra) |-> BuildActionSummary(acts[ra[k]], tick)],
        events |-> [k \in 1..Len(oe) |-> BuildEventSummary(evts[oe[k]], tick)],
        objectives |-> [k \in 1..Len(objs) |-> BuildObjectiveSummary(objs[k], tick)],
        last_action_feedback |-> <<>>]

\* Engine._refresh_system_state: rebuilds the three lists, keeps the feedback.
RefreshSystemState(sys, acts, evts, objs, tick) ==
    LET ra == SelectIndices([k \in 1..Len(acts) |-> IsRunning(acts[k])], 1)
        oe == SelectIndices([k \in 1..Len(evts) |-> IsObservable(evts[k])], 1)
    IN [sys EXCEPT
          !.running_actions = [k \in 1..Len(ra) |-> BuildActionSummary(acts[ra[k]], tick)],
          !.events = [k \in 1..Len(oe) |-> BuildEventSummary(evts[oe[k]], tick)],
          !.objectives = [k \in 1..Len(objs) |-> BuildObjectiveSummary(objs[k], tick)]]

----------------------------------------------------------------------------
\* core/observation_policy.py and core/observation.py

\* An allow-list that is None, and one that is the set S of field names.
NoKeys == [absent |-> TRUE, keys |-> {}]
Keys(S) == [absent |-> FALSE, keys |-> S]

\* DefaultObservationPolicy(world_keys, system_keys); a scenario without a
\* policy gets DefaultObservationPolicy().
DefaultObservationPolicy(world_keys, system_keys) ==
    [world_keys |-> world_keys, system_keys |-> system_keys]

\* asdict(SimulationStateProvider.state) for SimpleSimulationState.
WorldState ==
    [tick_started |-> 0, current_tick |-> current_tick, tree_growth |-> tree_growth]

\* FilterKeys keeping the fields that are not in the list.
FilterKeys_Inverted(data, keys) ==
    [key \in {k \in DOMAIN data : k \notin keys} |-> data[key]]

\* _filter_keys
FilterKeys(data, keys) ==
    [key \in {k \in DOMAIN data : k \in keys} |-> data[key]]

\* DefaultObservationPolicy.build; the states are passed as asdict gives them.
Build(policy, tick, world_state, sys) ==
    LET world_data == IF ~policy.world_keys.absent
                      THEN FilterKeys(world_state, policy.world_keys.keys)
                      ELSE world_state
        system_data == IF ~policy.system_keys.absent
                       THEN FilterKeys(sys, policy.system_keys.keys)
                       ELSE sys
    IN [tick |-> tick, world_state |-> world_data, system_state |-> system_data,
        extras |-> <<>>]

\* The agent loop's observation before its first turn (unbound).
NoObservation ==
    [tick |-> NoTick, world_state |-> <<>>, system_state |-> <<>>, extras |-> <<>>]

----------------------------------------------------------------------------
\* core/engine.py: Engine.step

\* SimpleEnvironment.step
EnvironmentStep(growth) == growth + 1

RECURSIVE StepActions_NoSkip(_, _, _, _)
\* StepActions treating every action that is not NotStarted as running.
StepActions_NoSkip(acts, i, growth, tick) ==
    IF i > Len(acts) THEN [actions |-> acts, tree_growth |-> growth]
    ELSE LET a == acts[i] IN
         IF a.status = NOT_STARTED
         THEN StepActions_NoSkip([acts EXCEPT ![i] = ActionStart(a, tick)], i + 1, growth, tick)
         ELSE LET a1 == ActionStep(a)
                  a2 == IF a1.status = IN_PROGRESS /\ ActionHasElapsedDuration(a1, tick)
                        THEN ActionComplete(a1, tick) ELSE a1
              IN StepActions_NoSkip([acts EXCEPT ![i] = a2], i + 1, growth + a.boost, tick)

RECURSIVE StepActions(_, _, _, _)
\* The loop over self.actions from index i on: the list and tree_growth after it.
StepActions(acts, i, growth, tick) ==
    IF i > Len(acts) THEN [actions |-> acts, tree_growth |-> growth]
    ELSE LET a == acts[i] IN
         IF a.status = IN_PROGRESS
         THEN LET a1 == ActionStep(a)
                  a2 == IF a1.status = IN_PROGRESS /\ ActionHasElapsedDuration(a1, tick)
                        THEN ActionComplete(a1, tick) ELSE a1
              IN StepActions([acts EXCEPT ![i] = a2], i + 1, growth + a.boost, tick)
         ELSE IF a.status = NOT_STARTED
         THEN StepActions([acts EXCEPT ![i] = ActionStart(a, tick)], i + 1, growth, tick)
         ELSE StepActions(acts, i + 1, growth, tick)

RECURSIVE StepEvents_StartOnly(_, _, _, _)
\* StepEvents handling an event as the action loop handles an action: the
\* step that starts an event does not run its step() hook.
StepEvents_StartOnly(evts, i, growth, tick) ==
    IF i > Len(evts) THEN [events |-> evts, tree_growth |-> growth]
    ELSE LET e == evts[i] IN
         IF e.status = NOT_STARTED /\ tick >= e.tick_start
         THEN StepEvents_StartOnly([evts EXCEPT ![i] = EventStart(e, tick)],
                                   i + 1, growth, tick)
         ELSE IF e.status = IN_PROGRESS
         THEN LET e2 == EventStep(e)
                  e3 == IF EventHasElapsedDuration(e2, tick)
                        THEN EventComplete(e2, tick) ELSE e2
              IN StepEvents_StartOnly([evts EXCEPT ![i] = e3], i + 1,
                                      growth + e.effect, tick)
         ELSE StepEvents_StartOnly(evts, i + 1, growth, tick)

RECURSIVE StepEvents(_, _, _, _)
\* The loop over self.events from index i on.
StepEvents(evts, i, growth, tick) ==
    IF i > Len(evts) THEN [events |-> evts, tree_growth |-> growth]
    ELSE LET e == evts[i]
             e1 == IF e.status = NOT_STARTED /\ tick >= e.tick_start
                   THEN EventStart(e, tick) ELSE e
         IN IF e1.status = IN_PROGRESS
            THEN LET e2 == EventStep(e1)
                     e3 == IF EventHasElapsedDuration(e2, tick)
                           THEN EventComplete(e2, tick) ELSE e2
                 IN StepEvents([evts EXCEPT ![i] = e3], i + 1, growth + e.effect, tick)
            ELSE StepEvents([evts EXCEPT ![i] = e1], i + 1, growth, tick)

\* StepObjective judging every started objective anew, finished ones included.
StepObjective_Reevaluates(o, growth, tick) ==
    IF o.status = NOT_STARTED THEN ObjectiveStart(o)
    ELSE IF IsCompleted(o, growth)
         THEN [o EXCEPT !.status = COMPLETED, !.tick_done = tick]
    ELSE IF IsFailed(o, growth, tick)
         THEN [o EXCEPT !.status = FAILED, !.tick_done = tick]
    ELSE o

\* The body of the loop over self.objectives for one objective.
StepObjective(o, growth, tick) ==
    IF o.status = IN_PROGRESS THEN CheckCompletion(o, growth, tick)
    ELSE IF o.status = NOT_STARTED THEN ObjectiveStart(o)
    ELSE o

\* EngineStep advancing the objectives right after the environment, before the
\* actions and events of the tick.
EngineStep_ObjectivesFirst ==
    LET tick == current_tick
        env == EnvironmentStep(tree_growth)
        objs == [k \in 1..Len(objectives) |-> StepObjective(objectives[k], env, tick)]
        ra == StepActions(actions, 1, env, tick)
        re == StepEvents(events, 1, ra.tree_growth, tick)
    IN /\ actions' = ra.actions
       /\ events' = re.events
       /\ tree_growth' = re.tree_growth
       /\ objectives' = objs
       /\ system_state' = RefreshSystemState(system_state, ra.actions, re.events, objs, tick)

\* EngineStep publishing its lists in a fresh SystemState().
EngineStep_FreshSnapshot ==
    LET tick == current_tick
        ra == StepActions(actions, 1, EnvironmentStep(tree_growth), tick)
        re == StepEvents(events, 1, ra.tree_growth, tick)
        objs == [k \in 1..Len(objectives) |->
                    StepObjective(objectives[k], re.tree_growth, tick)]
    IN /\ actions' = ra.actions
       /\ events' = re.events
       /\ tree_growth' = re.tree_growth
       /\ objectives' = objs
       /\ system_state' = RefreshSystemState(EmptySystemState, ra.actions, re.events, objs, tick)

\* Engine.step at the current tick.
EngineStep ==
    LET tick == current_tick
        ra == StepActions(actions, 1, EnvironmentStep(tree_growth), tick)
        re == StepEvents(events, 1, ra.tree_growth, tick)
        objs == [k \in 1..Len(objectives) |->
                    StepObjective(objectives[k], re.tree_growth, tick)]
    IN /\ actions' = ra.actions
       /\ events' = re.events
       /\ tree_growth' = re.tree_growth
       /\ objectives' = objs
       /\ system_state' = RefreshSystemState(system_state, ra.actions, re.events, objs, tick)

----------------------------------------------------------------------------
\* core/engine.py: Engine.execute_action

\* CanRunSimultaneously without the None check: two tagless actions conflict.
CanRunSimultaneously_NoNoneCheck(action_a, action_b) ==
    action_a.concurrency_tag # action_b.concurrency_tag

CanRunSimultaneously(action_a, action_b) ==
    IF action_a.concurrency_tag = NoTag \/ action_b.concurrency_tag = NoTag
    THEN TRUE
    ELSE action_a.concurrency_tag # action_b.concurrency_tag

\* ConflictingActions without the InProgress filter.
ConflictingActions_AnyStatus(acts, cls) ==
    SelectIndices([k \in 1..Len(acts) |->
                      ~CanRunSimultaneously(acts[k], NewAction(cls))], 1)

\* ConflictingActions counting the actions that have not started yet as well.
ConflictingActions_WithPending(acts, cls) ==
    SelectIndices([k \in 1..Len(acts) |->
                      /\ acts[k].status \in {IN_PROGRESS, NOT_STARTED}
                      /\ ~CanRunSimultaneously(acts[k], NewAction(cls))], 1)

\* Indices of conflicting_actions for a request of class cls, in list order.
ConflictingActions(acts, cls) ==
    SelectIndices([k \in 1..Len(acts) |->
                      /\ acts[k].status = IN_PROGRESS
                      /\ ~CanRunSimultaneously(acts[k], NewAction(cls))], 1)

\* Rejects letting a request of equal priority preempt.
Rejects_StrictOnly(highest_conflict_priority, priority) ==
    highest_conflict_priority > priority

\* The admission decision on the highest conflicting priority.
Rejects(highest_conflict_priority, priority) == highest_conflict_priority >= priority

ActionFeedback(cls, parameters, accepted, reason, tick, conflicts, preempted, started) ==
    [requested_action |-> cls.name, arguments |-> parameters, accepted |-> accepted,
     reason |-> reason, tick |-> tick, conflicts |-> conflicts,
     preempted |-> preempted, started_action |-> started]

\* ExecuteAction keeping a rejected request in the list, to be started later.
ExecuteAction_BuffersRejected(cls, parameters) ==
    LET tick == current_tick
        action_instance == NewAction(cls)
        conflicting == ConflictingActions(actions, cls)
        conflict_summaries ==
            [k \in 1..Len(conflicting) |-> BuildActionSummary(actions[conflicting[k]], tick)]
        highest == SeqMax([k \in 1..Len(conflicting) |-> actions[conflicting[k]].priority])
        stopped == [i \in 1..Len(actions) |->
                       IF \E k \in 1..Len(conflicting) : conflicting[k] = i
                       THEN ActionStop(actions[i], tick) ELSE actions[i]]
        preempted_summaries ==
            [k \in 1..Len(conflicting) |-> BuildActionSummary(stopped[conflicting[k]], tick)]
        started == <<BuildActionSummary(action_instance, tick)>>
        Finish(acts, feedback) ==
            /\ actions' = acts
            /\ system_state' = RefreshSystemState(
                   [system_state EXCEPT !.last_action_feedback = <<feedback>>],
                   acts, events, objectives, tick)
    IN /\ UNCHANGED <<tree_growth, events, objectives>>
       /\ IF conflicting = <<>>
          THEN Finish(Append(actions, action_instance),
                      ActionFeedback(cls, parameters, TRUE, "accepted_no_conflict",
                                     tick, <<>>, <<>>, started))
          ELSE IF Rejects(highest, action_instance.priority)
          THEN Finish(Append(actions, action_instance),
                      ActionFeedback(cls, parameters, FALSE,
                                     "rejected_higher_or_equal_priority_conflict",
                                     tick, conflict_summaries, <<>>, <<>>))
          ELSE Finish(Append(stopped, action_instance),
                      ActionFeedback(cls, parameters, TRUE,
                                     "accepted_preempted_lower_priority",
                                     tick, conflict_summaries, preempted_summaries,
                                     started))

\* Engine.execute_action(action_cls, parameters) at the current tick.
ExecuteAction(cls, parameters) ==
    LET tick == current_tick
        action_instance == NewAction(cls)
        conflicting == ConflictingActions(actions, cls)
        conflict_summaries ==
            [k \in 1..Len(conflicting) |-> BuildActionSummary(actions[conflicting[k]], tick)]
        highest == SeqMax([k \in 1..Len(conflicting) |-> actions[conflicting[k]].priority])
        stopped == [i \in 1..Len(actions) |->
                       IF \E k \in 1..Len(conflicting) : conflicting[k] = i
                       THEN ActionStop(actions[i], tick) ELSE actions[i]]
        preempted_summaries ==
            [k \in 1..Len(conflicting) |-> BuildActionSummary(stopped[conflicting[k]], tick)]
        started == <<BuildActionSummary(action_instance, tick)>>
        Finish(acts, feedback) ==
            /\ actions' = acts
            /\ system_state' = RefreshSystemState(
                   [system_state EXCEPT !.last_action_feedback = <<feedback>>],
                   acts, events, objectives, tick)
    IN /\ UNCHANGED <<tree_growth, events, objectives>>
       /\ IF conflicting = <<>>
          THEN Finish(Append(actions, action_instance),
                      ActionFeedback(cls, parameters, TRUE, "accepted_no_conflict",
                                     tick, <<>>, <<>>, started))
          ELSE IF Rejects(highest, action_instance.priority)
          THEN Finish(actions,
                      ActionFeedback(cls, parameters, FALSE,
                                     "rejected_higher_or_equal_priority_conflict",
                                     tick, conflict_summaries, <<>>, <<>>))
          ELSE Finish(Append(stopped, action_instance),
                      ActionFeedback(cls, parameters, TRUE,
                                     "accepted_preempted_lower_priority",
                                     tick, conflict_summaries, preempted_summaries,
                                     started))

----------------------------------------------------------------------------
\* Scenarios and the decision-maker's choices

Scenario(registry, evts, objs) ==
    [action_registry |-> registry, events |-> evts, objectives |-> objs,
     observation_policy |-> DefaultObservationPolicy(NoKeys, NoKeys)]

\* Scenario(..., observation_policy = policy)
WithPolicy(scenario, policy) == [scenario EXCEPT !.observation_policy = policy]

\* The observation policies of the checked runner scenarios: no filtering; an
\* allow-list on each side; an allow-list naming a field no state has,
\* together with an empty allow-list.
ObservationPolicies ==
    { DefaultObservationPolicy(NoKeys, NoKeys),
      DefaultObservationPolicy(Keys({"current_tick"}),
                               Keys({"events", "last_action_feedback"})),
      DefaultObservationPolicy(Keys({"tree_growth", "weather"}), Keys({})) }

\* Event lists of the checked scenarios.
WeatherPair ==
    <<NewEvent("GoodWeatherEvent", 1, 2, OMNISCIENT, 3),
      NewEvent("BadWeatherEvent", 2, 1, PRESENT_ONLY, -2)>>

SingleEvents ==
    { <<NewEvent("BadWeatherEvent", s, d, PRESENT_ONLY, -2)>> :
          s \in {0, 1, 2}, d \in {1, 2, 3} }

\* Objective lists of the checked scenarios.
GrowFromTwo == <<NewObjective("GrowTreesObjective", 2, 3, NoTick)>>

OtherObjectives ==
    { <<NewObjective("GrowTreesObjective", 0, 3, NoTick)>>,
      <<NewObjective("GrowTreesObjective", 2, 1, NoTick)>>,
      <<NewObjective("GrowTreeQuicklyObjective", 1, 9, 2),
        NewObjective("GrowTreesObjective", 3, 2, NoTick)>>,
      <<NewObjective("DeadlineObjective", 0, 6, 1)>> }

\* The scenarios ScenarioRunner.run is checked on.
Scenarios ==
    { Scenario(FullRegistry, WeatherPair, GrowFromTwo) }
    \cup { Scenario(SmallRegistry, evts, GrowFromTwo) : evts \in SingleEvents }
    \cup { Scenario(SmallRegistry, WeatherPair, objs) : objs \in OtherObjectives }

\* The scenarios the two-thread runner is checked on.
RunnerScenarios ==
    { WithPolicy(Scenario(SmallRegistry, WeatherPair, GrowFromTwo), policy) :
         policy \in ObservationPolicies }
    \cup { Scenario(PairRegistry, WeatherPair, GrowFromTwo) }

\* The arguments the decision-maker passes with a tool name.
Arguments == { [boost |-> 1] }

\* A tool name that is in no registry.
UnknownTool == "unknown_tool"

\* parsed_action: None.
NoAction == [tool_name |-> "None", arguments |-> [boost |-> 0]]

----------------------------------------------------------------------------
\* The state after ScenarioRunner.run has built the engine and the threads

InitScenario(scenario) ==
    /\ current_tick = 0
    /\ tree_growth = 0
    /\ actions = <<>>
    /\ action_registry = scenario.action_registry
    /\ events = scenario.events
    /\ objectives = scenario.objectives
    /\ system_state = EmptySystemState
    /\ lock = "free"
    /\ pc_sim = "acquire"
    /\ pc_agent = "delay"
    /\ ct = 0
    /\ parsed_action = NoAction
    /\ observation = NoObservation
    /\ observation_policy = scenario.observation_policy

Init == \E scenario \in Scenarios : InitScenario(scenario)

\* ScenarioRunnerConfig.agent_delay_ticks of the checked runs.
AgentDelayTicks == 1
\* ScenarioRunnerConfig.agent_tick_interval of the checked runs.
AgentTickInterval == 2

\* RunningCondition that still holds at max_ticks.
RunningCondition_Inclusive(tick) == tick <= MaxTicks

\* running_condition of ScenarioRunner.run with max_ticks = MaxTicks.
RunningCondition(tick) == tick < MaxTicks

----------------------------------------------------------------------------
\* The engine as the two loops drive it, one lock-holding turn per action

\* One turn of _simulation_loop: engine.step(), then current_tick += 1.
WorldTick ==
    /\ RunningCondition(current_tick)
    /\ EngineStep
    /\ current_tick' = current_tick + 1
    /\ UNCHANGED <<runner_vars, scenario_vars>>

\* One turn of _agent_loop that submits a request for a registered tool.
AgentRequest(cls, parameters) ==
    /\ RunningCondition(current_tick)
    /\ Len(actions) < MaxActions
    /\ ExecuteAction(cls, parameters)
    /\ UNCHANGED <<current_tick, runner_vars, scenario_vars>>

Next ==
    \/ WorldTick
    \/ \E cls \in ToolRegistry(action_registry), parameters \in Arguments : AgentRequest(cls, parameters)

Spec == Init /\ [][Next]_vars

----------------------------------------------------------------------------
\* The engine with its entities' start() methods also called directly, by a
\* caller that holds the entities once the run is over

\* actions[i].start() at the current tick.
CallActionStart(i) ==
    /\ ~RunningCondition(current_tick)
    /\ i \in DOMAIN actions
    /\ actions' = [actions EXCEPT ![i] = ActionStart(actions[i], current_tick)]
    /\ UNCHANGED <<current_tick, tree_growth, events, objectives, system_state,
                   runner_vars, scenario_vars>>

\* events[k].start() at the current tick.
CallEventStart(k) ==
    /\ ~RunningCondition(current_tick)
    /\ k \in DOMAIN events
    /\ events' = [events EXCEPT ![k] = EventStart(events[k], current_tick)]
    /\ UNCHANGED <<current_tick, tree_growth, actions, objectives, system_state,
                   runner_vars, scenario_vars>>

\* objectives[k].start()
CallObjectiveStart(k) ==
    /\ ~RunningCondition(current_tick)
    /\ k \in DOMAIN objectives
    /\ objectives' = [objectives EXCEPT ![k] = ObjectiveStart(objectives[k])]
    /\ UNCHANGED <<current_tick, tree_growth, actions, events, system_state,
                   runner_vars, scenario_vars>>

StartNext ==
    \/ Next
    \/ \E i \in 1..MaxActions : CallActionStart(i)
    \/ \E k \in 1..2 : CallEventStart(k)
    \/ \E k \in 1..2 : CallObjectiveStart(k)

\* The scenario the direct calls are checked on.
StartInit ==
    InitScenario(Scenario(SmallRegistry,
                          <<NewEvent("GoodWeatherEvent", 1, 2, OMNISCIENT, 3),
                            NewEvent("BadWeatherEvent", 4, 3, PRESENT_ONLY, -2)>>,
                          <<NewObjective("GrowTreeQuicklyObjective", 1, 9, 2),
                            NewObjective("GrowTreesObjective", 3, 2, NoTick)>>))

StartSpec == StartInit /\ [][StartNext]_vars

----------------------------------------------------------------------------

\* ScenarioRunner.run: the two threads, statement by statement

RunnerInit == \E scenario \in RunnerScenarios : InitScenario(scenario)

\* LockAcquire that does not wait for the lock to be free.
LockAcquire_NoWait(who) == lock' = who

\* lock.acquire() by thread who: blocks until the lock is free.
LockAcquire(who) == lock = "free" /\ lock' = who

\* lock.release()
LockRelease == lock' = "free"

\* _simulation_loop: lock.acquire()
SimAcquire ==
    /\ pc_sim = "acquire"
    /\ LockAcquire("sim")
    /\ pc_sim' = "check"
    /\ UNCHANGED <<engine_vars, pc_agent, ct, parsed_action, observation, scenario_vars>>

\* _simulation_loop: the stop condition; break leaves the loop as it is.
SimCheck ==
    /\ pc_sim = "check"
    /\ pc_sim' = IF RunningCondition(current_tick) THEN "step" ELSE "done"
    /\ UNCHANGED <<engine_vars, lock, pc_agent, ct, parsed_action, observation, scenario_vars>>

\* _simulation_loop: engine.step()
SimStep ==
    /\ pc_sim = "step"
    /\ EngineStep
    /\ pc_sim' = "increment"
    /\ UNCHANGED <<current_tick, lock, pc_agent, ct, parsed_action, observation, scenario_vars>>

\* SimIncrement advancing the tick by two.
SimIncrement_ByTwo ==
    /\ pc_sim = "increment"
    /\ current_tick' = current_tick + 2
    /\ pc_sim' = "release"
    /\ UNCHANGED <<tree_growth, actions, events, objectives, system_state,
                   lock, pc_agent, ct, parsed_action, observation, scenario_vars>>

\* _simulation_loop: state.current_tick += 1
SimIncrement ==
    /\ pc_sim = "increment"
    /\ current_tick' = current_tick + 1
    /\ pc_sim' = "release"
    /\ UNCHANGED <<tree_growth, actions, events, objectives, system_state,
                   lock, pc_agent, ct, parsed_action, observation, scenario_vars>>

\* _simulation_loop: lock.release(), then the sleep before the next turn.
SimRelease ==
    /\ pc_sim = "release"
    /\ LockRelease
    /\ pc_sim' = "acquire"
    /\ UNCHANGED <<engine_vars, pc_agent, ct, parsed_action, observation, scenario_vars>>

\* _agent_loop: the initial delay, agent_delay_ticks sleeps of
\* real_time_delay_s each. A sleep waits for time to pass, not for ticks: the
\* world loop takes any number of turns meanwhile.
AgentDelay ==
    /\ pc_agent = "delay"
    /\ pc_agent' = "acquire"
    /\ UNCHANGED <<engine_vars, lock, pc_sim, ct, parsed_action, observation, scenario_vars>>

\* AgentAcquire going on without taking the lock.
AgentAcquire_NoLock ==
    /\ pc_agent = "acquire"
    /\ pc_agent' = "check"
    /\ UNCHANGED <<engine_vars, lock, pc_sim, ct, parsed_action, observation, scenario_vars>>

\* _agent_loop: lock.acquire()
AgentAcquire ==
    /\ pc_agent = "acquire"
    /\ LockAcquire("agent")
    /\ pc_agent' = "check"
    /\ UNCHANGED <<engine_vars, pc_sim, ct, parsed_action, observation, scenario_vars>>

\* _agent_loop: input() returns, the stop condition, ct = state.current_tick
\* and the observation built from it.
AgentObserve ==
    /\ pc_agent = "check"
    /\ IF RunningCondition(current_tick)
       THEN /\ pc_agent' = "decide"
            /\ ct' = current_tick
            /\ observation' = Build(observation_policy, current_tick,
                                    WorldState, system_state)
       ELSE pc_agent' = "done" /\ UNCHANGED <<ct, observation>>
    /\ UNCHANGED <<engine_vars, lock, pc_sim, parsed_action, scenario_vars>>

\* What MonkeyPatch.step_agent may return as parsed_action.
Decisions ==
    {NoAction}
    \cup {[tool_name |-> UnknownTool, arguments |-> p] : p \in Arguments}
    \cup (IF Len(actions) < MaxActions
          THEN {[tool_name |-> cls.name, arguments |-> p] :
                   cls \in ToolRegistry(action_registry), p \in Arguments}
          ELSE {})

\* _agent_loop: MonkeyPatch.step_agent(agent, prompt) returns.
AgentDecide ==
    /\ pc_agent = "decide"
    /\ parsed_action' \in Decisions
    /\ pc_agent' = "dispatch"
    /\ UNCHANGED <<engine_vars, lock, pc_sim, ct, observation, scenario_vars>>

\* _agent_loop: parsed_action is None, nothing is submitted.
AgentIdle ==
    /\ pc_agent = "dispatch"
    /\ parsed_action = NoAction
    /\ pc_agent' = "release"
    /\ UNCHANGED <<engine_vars, lock, pc_sim, ct, parsed_action, observation, scenario_vars>>

\* AgentRaise swallowing the error: the turn ends as if nothing was decided.
AgentRaise_Skips ==
    /\ pc_agent = "dispatch"
    /\ parsed_action # NoAction
    /\ ~ \E cls \in ToolRegistry(action_registry) : cls.name = parsed_action.tool_name
    /\ pc_agent' = "release"
    /\ UNCHANGED <<engine_vars, lock, pc_sim, ct, parsed_action, observation, scenario_vars>>

\* _agent_loop: action_registry.get() finds no class; ValueError ends the thread.
AgentRaise ==
    /\ pc_agent = "dispatch"
    /\ parsed_action # NoAction
    /\ ~ \E cls \in ToolRegistry(action_registry) : cls.name = parsed_action.tool_name
    /\ pc_agent' = "raised"
    /\ UNCHANGED <<engine_vars, lock, pc_sim, ct, parsed_action, observation, scenario_vars>>

\* _agent_loop: engine.execute_action(action_cls, arguments)
AgentExecute ==
    /\ pc_agent = "dispatch"
    /\ parsed_action # NoAction
    /\ \E cls \in ToolRegistry(action_registry) :
          /\ cls.name = parsed_action.tool_name
          /\ ExecuteAction(cls, parsed_action.arguments)
    /\ pc_agent' = "release"
    /\ UNCHANGED <<current_tick, lock, pc_sim, ct, parsed_action, observation, scenario_vars>>

\* _agent_loop: lock.release(), then agent_tick_interval sleeps of
\* real_time_delay_s each before the next turn. As in AgentDelay, the sleeps
\* wait for time, not for ticks.
AgentRelease ==
    /\ pc_agent = "release"
    /\ LockRelease
    /\ pc_agent' = "acquire"
    /\ UNCHANGED <<engine_vars, pc_sim, ct, parsed_action, observation, scenario_vars>>

\* run(): agent_thread.join() and simulation_thread.join() both return once
\* both thread functions have ended.
RunReturns == pc_agent \in {"done", "raised"} /\ pc_sim = "done"

RunnerNext ==
    \/ SimAcquire \/ SimCheck \/ SimStep \/ SimIncrement \/ SimRelease
    \/ AgentDelay \/ AgentAcquire \/ AgentObserve \/ AgentDecide
    \/ AgentIdle \/ AgentRaise \/ AgentExecute \/ AgentRelease

RunnerSpec == RunnerInit /\ [][RunnerNext]_vars

----------------------------------------------------------------------------
----------------------------------------------------------------------------
\* ScenarioRunner.run with max_ticks = None: running_condition is always true

\* Number of ticks the model follows a run without max_ticks for.
HorizonTicks == 7

\* _simulation_loop: the stop condition never holds. The guard on the tick
\* bounds the model, not the program.
SimCheckUnbounded ==
    /\ pc_sim = "check"
    /\ current_tick < HorizonTicks
    /\ pc_sim' = "step"
    /\ UNCHANGED <<engine_vars, lock, pc_agent, ct, parsed_action, observation, scenario_vars>>

\* _agent_loop: input() returns, the stop condition never holds,
\* ct = state.current_tick and the observation built from it.
AgentObserveUnbounded ==
    /\ pc_agent = "check"
    /\ pc_agent' = "decide"
    /\ ct' = current_tick
    /\ observation' = Build(observation_policy, current_tick, WorldState, system_state)
    /\ UNCHANGED <<engine_vars, lock, pc_sim, parsed_action, scenario_vars>>

UnboundedInit == InitScenario(Scenario(PairRegistry, WeatherPair, GrowFromTwo))

UnboundedNext ==
    \/ SimAcquire \/ SimCheckUnbounded \/ SimStep \/ SimIncrement \/ SimRelease
    \/ AgentDelay \/ AgentAcquire \/ AgentObserveUnbounded \/ AgentDecide
    \/ AgentIdle \/ AgentRaise \/ AgentExecute \/ AgentRelease

\* The world loop keeps being scheduled: it gets the lock whenever the lock is
\* free again and again, and goes on from every position; the decision call
\* returns and the agent loop goes on to the end of its turn.
UnboundedFairness ==
    /\ SF_vars(SimAcquire)
    /\ WF_vars(SimCheckUnbounded)
    /\ WF_vars(SimStep)
    /\ WF_vars(SimIncrement)
    /\ WF_vars(SimRelease)
    /\ WF_vars(AgentObserveUnbounded)
    /\ WF_vars(AgentDecide)
    /\ WF_vars(AgentIdle \/ AgentRaise \/ AgentExecute)
    /\ WF_vars(AgentRelease)

UnboundedSpec == UnboundedInit /\ [][UnboundedNext]_vars /\ UnboundedFairness

----------------------------------------------------------------------------
\* Properties

\* The feedback of the most recent request, when there is one.
HasFeedback == system_state.last_action_feedback # <<>>
Feedback == system_state.last_action_feedback[1]

\* The actions a request of class cls conflicts with by the specification:
\* the InProgress actions carrying the request's (non-null) tag.
SameTagRunning(cls) ==
    { i \in DOMAIN actions :
        /\ actions[i].status = IN_PROGRESS
        /\ cls.concurrency_tag # NoTag
        /\ actions[i].concurrency_tag = cls.concurrency_tag }

\* C1: no two actions of the engine's list that share a non-null
\* concurrency_tag are InProgress at the same time.
C1_TagExclusive ==
    \A i, j \in DOMAIN actions :
        (/\ i # j
         /\ actions[i].status = IN_PROGRESS
         /\ actions[j].status = IN_PROGRESS
         /\ actions[i].concurrency_tag # NoTag)
        => actions[i].concurrency_tag # actions[j].concurrency_tag

\* C4: a request whose tag is carried by an InProgress action of higher or
\* equal priority is rejected: the list is unchanged (nothing appended, every
\* conflicting action still InProgress) and the feedback says accepted = false
\* with reason rejected_higher_or_equal_priority_conflict.
C4_RejectedOnHigherOrEqual ==
    [][\A cls \in ToolRegistry(action_registry), p \in Arguments :
         (/\ AgentRequest(cls, p)
          /\ \E i \in SameTagRunning(cls) : actions[i].priority >= cls.priority)
         => /\ actions' = actions
            /\ \A i \in SameTagRunning(cls) : actions'[i].status = IN_PROGRESS
            /\ system_state'.last_action_feedback # <<>>
            /\ system_state'.last_action_feedback[1].accepted = FALSE
            /\ system_state'.last_action_feedback[1].reason
                   = "rejected_higher_or_equal_priority_conflict"
            /\ system_state'.last_action_feedback[1].requested_action = cls.name
      ]_vars

\* A Fertilize request (priority 1) was rejected on a tie with a running
\* Fertilize action, which is still InProgress.
C4_Witness ==
    /\ HasFeedback
    /\ Feedback.requested_action = "Fertilize"
    /\ Feedback.reason = "rejected_higher_or_equal_priority_conflict"
    /\ \E k \in DOMAIN Feedback.conflicts : Feedback.conflicts[k].priority = 1
    /\ \E i \in DOMAIN actions :
          actions[i].name = "Fertilize" /\ actions[i].status = IN_PROGRESS

\* C5: a request whose priority is strictly above that of every InProgress
\* action with its tag (there being at least one) stops each of them at the
\* current tick, is appended as NotStarted, and the feedback says accepted =
\* true, reason accepted_preempted_lower_priority, with conflicts and preempted
\* both listing exactly the stopped actions.
C5_PreemptsLower ==
    [][\A cls \in ToolRegistry(action_registry), p \in Arguments :
         (/\ AgentRequest(cls, p)
          /\ SameTagRunning(cls) # {}
          /\ \A i \in SameTagRunning(cls) : actions[i].priority < cls.priority)
         => LET fb == system_state'.last_action_feedback[1]
                n == Cardinality(SameTagRunning(cls))
            IN /\ Len(actions') = Len(actions) + 1
               /\ actions'[Len(actions')].status = NOT_STARTED
               /\ actions'[Len(actions')].name = cls.name
               /\ \A i \in DOMAIN actions :
                     IF i \in SameTagRunning(cls)
                     THEN /\ actions'[i].status = STOPPED
                          /\ actions'[i].tick_stopped = current_tick
                     ELSE actions'[i] = actions[i]
               /\ system_state'.last_action_feedback # <<>>
               /\ fb.accepted = TRUE
               /\ fb.reason = "accepted_preempted_lower_priority"
               /\ Len(fb.conflicts) = n
               /\ Len(fb.preempted) = n
               /\ \A k \in 1..n :
                     \E i \in SameTagRunning(cls) :
                        /\ Cardinality({j \in SameTagRunning(cls) : j <= i}) = k
                        /\ fb.conflicts[k].name = actions[i].name
                        /\ fb.conflicts[k].tick_started = actions[i].tick_started
                        /\ fb.preempted[k].name = actions[i].name
                        /\ fb.preempted[k].tick_started = actions[i].tick_started
                        /\ fb.preempted[k].status = STOPPED
                        /\ fb.preempted[k].tick_stopped = current_tick
      ]_vars

\* A WaterTrees request has just preempted two running Fertilize actions.
C5_Witness ==
    /\ HasFeedback
    /\ Feedback.requested_action = "WaterTrees"
    /\ Feedback.reason = "accepted_preempted_lower_priority"
    /\ Len(Feedback.preempted) = 2
    /\ Len(actions) = 3
    /\ actions[1].status = STOPPED
    /\ actions[2].status = STOPPED
    /\ actions[3].status = NOT_STARTED

\* C6: a request without a concurrency_tag is accepted with reason
\* accepted_no_conflict and stops nothing; an InProgress action without a tag
\* is in no request's conflict set: no request changes it (it is not stopped),
\* it is in no conflicts list, and a request is rejected only when a tagged
\* InProgress action carries the request's tag.
C6_TaglessNeverConflicts ==
    [][\A cls \in ToolRegistry(action_registry), p \in Arguments :
         AgentRequest(cls, p)
         => LET fb == system_state'.last_action_feedback[1]
            IN /\ cls.concurrency_tag = NoTag
                  => /\ actions' = Append(actions, NewAction(cls))
                     /\ fb.accepted = TRUE
                     /\ fb.reason = "accepted_no_conflict"
                     /\ fb.preempted = <<>>
               /\ \A i \in DOMAIN actions :
                     actions[i].concurrency_tag = NoTag => actions'[i] = actions[i]
               /\ \A k \in DOMAIN fb.conflicts :
                     fb.conflicts[k].concurrency_tag # NoTag
               /\ fb.accepted = FALSE => SameTagRunning(cls) # {}
      ]_vars

\* A do_nothing request (priority 0) was accepted while a tagless Inspect
\* action of priority 3 is InProgress.
C6_Witness ==
    /\ HasFeedback
    /\ Feedback.requested_action = "do_nothing"
    /\ Feedback.reason = "accepted_no_conflict"
    /\ Len(actions) >= 2
    /\ actions[Len(actions)].name = "do_nothing"
    /\ actions[Len(actions)].status = NOT_STARTED
    /\ \E i \in DOMAIN actions :
          /\ actions[i].name = "Inspect"
          /\ actions[i].status = IN_PROGRESS

\* C7: for every action, tick_completed is set iff the status is Completed,
\* and then tick_completed - tick_started + 1 >= ticks_required.
C7_CompletedIffTick ==
    \A i \in DOMAIN actions :
        /\ (actions[i].tick_completed # NoTick) <=> (actions[i].status = COMPLETED)
        /\ actions[i].tick_completed # NoTick
           => /\ actions[i].tick_started # NoTick
              /\ actions[i].tick_completed - actions[i].tick_started + 1
                     >= actions[i].ticks_required

\* A Fertilize action (ticks_required 3) has completed.
C7_Witness ==
    \E i \in DOMAIN actions :
        /\ actions[i].status = COMPLETED
        /\ actions[i].ticks_required = 3
        /\ actions[i].tick_completed - actions[i].tick_started + 1 = 3

\* C8: once an action is Stopped or Completed its status never changes again,
\* and no action has both tick_completed and tick_stopped set.
C8_TerminalStatuses ==
    /\ [](\A i \in DOMAIN actions :
             ~(actions[i].tick_completed # NoTick /\ actions[i].tick_stopped # NoTick))
    /\ [][\A i \in DOMAIN actions :
             actions[i].status \in {STOPPED, COMPLETED}
             => /\ i \in DOMAIN actions'
                /\ actions'[i].status = actions[i].status
      ]_vars

\* A Stopped action and a Completed action have both been through a later
\* step and a later request for the Completed action's tag.
C8_Witness ==
    /\ HasFeedback
    /\ \E i, j \in DOMAIN actions :
          /\ actions[i].status = STOPPED
          /\ actions[i].tick_stopped < current_tick - 1
          /\ actions[j].status = COMPLETED
          /\ actions[j].tick_completed < current_tick - 1
          /\ actions[j].concurrency_tag # NoTag
          /\ Feedback.tick > actions[j].tick_completed
          /\ \E cls \in ToolRegistry(action_registry) :
                /\ cls.name = Feedback.requested_action
                /\ cls.concurrency_tag = actions[j].concurrency_tag

\* The tick of the most recent Engine.step, once one has run.
Stepped == current_tick >= 1
LastSteppedTick == current_tick - 1

\* C9: after the step for tick t, an event with tick_start s and
\* tick_duration d is NotStarted for t < s, InProgress for s <= t <= s+d-1 and
\* Completed for t >= s+d.
C9_EventTimeline ==
    \A k \in DOMAIN events :
        Stepped =>
           LET s == events[k].tick_start
               d == events[k].tick_duration
               t == LastSteppedTick
           IN events[k].status = IF t < s THEN NOT_STARTED
                                 ELSE IF t <= s + d - 1 THEN IN_PROGRESS
                                 ELSE COMPLETED

\* C9 as amended: after the step for tick t, the event is NotStarted for
\* t < s, InProgress for s <= t <= s+d-2 and Completed for t >= s+d-1.
C9_EventTimelineAmended ==
    \A k \in DOMAIN events :
        Stepped =>
           LET s == events[k].tick_start
               d == events[k].tick_duration
               t == LastSteppedTick
           IN events[k].status = IF t < s THEN NOT_STARTED
                                 ELSE IF t <= s + d - 2 THEN IN_PROGRESS
                                 ELSE COMPLETED

\* An event of duration 3 right after the step for tick tick_start + 2.
C9_Witness ==
    \E k \in DOMAIN events :
        /\ events[k].tick_duration = 3
        /\ events[k].tick_start >= 1
        /\ LastSteppedTick = events[k].tick_start + 2
        /\ events[k].status = COMPLETED

\* C10: after the step for tick t, an objective with tick_start s is
\* NotStarted for t < s and started for t >= s; it is Completed as soon as
\* is_completed holds on the domain state at a tick >= s, and tick_done is
\* the tick of that step, so never below s.
C10_ObjectiveTimeline ==
    \A k \in DOMAIN objectives :
        Stepped =>
           LET o == objectives[k]
               t == LastSteppedTick
           IN /\ t < o.tick_start => o.status = NOT_STARTED
              /\ t >= o.tick_start => o.status # NOT_STARTED
              /\ o.status = COMPLETED => o.tick_done >= o.tick_start
              /\ (t >= o.tick_start /\ o.status # FAILED /\ IsCompleted(o, tree_growth))
                 => o.status = COMPLETED /\ o.tick_done <= t

\* The critical sections of the two loops: the statements between
\* lock.acquire() and lock.release().
SimCritical == {"check", "step", "increment", "release"}
AgentCritical == {"check", "decide", "dispatch", "release"}

\* A loop that can take no step: it has ended, or waits for a lock that is held.
SimBlocked == pc_sim = "done" \/ (pc_sim = "acquire" /\ lock # "free")
AgentBlocked ==
    pc_agent \in {"done", "raised"} \/ (pc_agent = "acquire" /\ lock # "free")

\* C2: with a finite max_ticks and decisions that always return, run()
\* terminates: when no thread can take another step, both loops have exited
\* and both joins return.
C2_RunTerminates ==
    (pc_agent # "raised" /\ SimBlocked /\ AgentBlocked) => RunReturns

\* C3: Engine.step with the tick increment and Engine.execute_action never
\* run concurrently: a loop is between acquire and release only while it
\* holds the lock, and never while the other loop is.
C3_StepExecuteExclusive ==
    /\ pc_sim \in SimCritical => lock = "sim"
    /\ pc_agent \in AgentCritical => lock = "agent"
    /\ ~(pc_sim \in SimCritical /\ pc_agent \in AgentCritical)

\* The agent is about to call execute_action, after at least one step and one
\* earlier request, while the world loop waits for the lock.
C3_Witness ==
    /\ pc_agent = "dispatch"
    /\ parsed_action.tool_name = "Fertilize"
    /\ pc_sim = "acquire"
    /\ current_tick >= 1
    /\ Len(actions) >= 1

\* C11: every Engine.step leaves an action that is Stopped or Completed and an
\* event that is Completed exactly as it was: the step() hook is not invoked
\* (steps does not move), start() and complete() are not invoked (the status
\* stays), and tick_started, tick_completed and tick_stopped keep their values.
C11_TerminalSkipped ==
    [][current_tick' = current_tick + 1 =>
         /\ \A i \in DOMAIN actions :
               actions[i].status \in {STOPPED, COMPLETED} => actions'[i] = actions[i]
         /\ \A k \in DOMAIN events :
               events[k].status = COMPLETED => events'[k] = events[k]
      ]_vars

\* A Completed action, a Stopped action and a Completed event, each of which
\* at least one later step has passed over.
C11_Witness ==
    /\ \E i \in DOMAIN actions :
          /\ actions[i].status = COMPLETED
          /\ actions[i].tick_completed < LastSteppedTick
    /\ \E i \in DOMAIN actions :
          /\ actions[i].status = STOPPED
          /\ actions[i].tick_stopped <= LastSteppedTick
    /\ \E k \in DOMAIN events :
          /\ events[k].status = COMPLETED
          /\ events[k].tick_completed < LastSteppedTick

\* C12: current_tick is a non-negative integer; the only transitions that
\* change it are the world loop's increment, which adds exactly 1; the world
\* loop goes from Engine.step straight to the increment, still holding the
\* lock; every other statement of either loop (Engine.step, execute_action,
\* the decision loop) leaves it unchanged.
C12_TickAdvance ==
    /\ [](current_tick \in Nat)
    /\ [](pc_sim = "increment" => lock = "sim")
    /\ [][/\ current_tick' # current_tick =>
               /\ pc_sim = "increment" /\ pc_sim' = "release"
               /\ current_tick' = current_tick + 1
               /\ pc_agent' = pc_agent
          /\ (pc_sim = "step" /\ pc_sim' # pc_sim) =>
               pc_sim' = "increment" /\ current_tick' = current_tick
          /\ (pc_sim = "increment" /\ pc_sim' # pc_sim) =>
               current_tick' = current_tick + 1
          /\ pc_agent' # pc_agent => current_tick' = current_tick
         ]_vars

\* The world loop has just incremented the tick for the second time, after
\* the decision loop had a request admitted.
C12_Witness ==
    /\ current_tick = 2
    /\ pc_sim = "release"
    /\ Len(actions) >= 1

\* C13: a request accepted while current_tick = t appends an action that is
\* NotStarted and has no tick_started, and the tick stays t; a transition that
\* is not an Engine.step leaves every NotStarted action NotStarted; and every
\* Engine.step moves every NotStarted action to InProgress with tick_started
\* equal to the tick of that step, which is still t.
C13_StartedByNextStep ==
    [][/\ Len(actions') > Len(actions) =>
            /\ Len(actions') = Len(actions) + 1
            /\ current_tick' = current_tick
            /\ actions'[Len(actions')].status = NOT_STARTED
            /\ actions'[Len(actions')].tick_started = NoTick
            /\ system_state'.last_action_feedback # <<>>
            /\ system_state'.last_action_feedback[1].accepted
            /\ system_state'.last_action_feedback[1].tick = current_tick
       /\ current_tick' = current_tick =>
            \A i \in DOMAIN actions :
               actions[i].status = NOT_STARTED => actions'[i] = actions[i]
       /\ current_tick' # current_tick =>
            /\ Len(actions') = Len(actions)
            /\ \A i \in DOMAIN actions :
                  actions[i].status = NOT_STARTED =>
                     /\ actions'[i].status = IN_PROGRESS
                     /\ actions'[i].tick_started = current_tick
                     /\ actions'[i].steps = 0
      ]_vars

\* The most recent request was accepted at a tick t >= 1 and the action it
\* added has been started by the step for tick t.
C13_Witness ==
    /\ HasFeedback
    /\ Feedback.accepted
    /\ Feedback.tick >= 1
    /\ Len(actions) >= 1
    /\ actions[Len(actions)].status = IN_PROGRESS
    /\ actions[Len(actions)].tick_started = Feedback.tick
    /\ current_tick = Feedback.tick + 1

\* C14: right after execute_action for a request (cls, p) at tick t, without
\* any step in between, the snapshot's last_action_feedback names the
\* request's tool, carries its arguments and the tick t, and its accepted flag
\* and reason are those of the branch taken: accepted_no_conflict when no
\* InProgress action shares the tag, rejected_higher_or_equal_priority_conflict
\* when one of them has at least the request's priority, and
\* accepted_preempted_lower_priority otherwise.
C14_FeedbackAfterRequest ==
    [][\A cls \in ToolRegistry(action_registry), p \in Arguments :
         AgentRequest(cls, p) =>
            LET fb == system_state'.last_action_feedback
                same == SameTagRunning(cls)
            IN /\ current_tick' = current_tick
               /\ Len(fb) = 1
               /\ fb[1].requested_action = cls.name
               /\ fb[1].arguments = p
               /\ fb[1].tick = current_tick
               /\ fb[1].accepted = (Len(actions') = Len(actions) + 1)
               /\ fb[1].accepted = (\A i \in same : actions[i].priority < cls.priority)
               /\ fb[1].reason =
                     IF same = {} THEN "accepted_no_conflict"
                     ELSE IF \E i \in same : actions[i].priority >= cls.priority
                     THEN "rejected_higher_or_equal_priority_conflict"
                     ELSE "accepted_preempted_lower_priority"
      ]_vars

\* A rejection at a tick t >= 2 is the feedback in the snapshot, after
\* earlier requests had been accepted, and no step has run since.
C14_Witness ==
    /\ HasFeedback
    /\ ~Feedback.accepted
    /\ Feedback.tick = current_tick
    /\ current_tick >= 2
    /\ Len(actions) >= 2
    /\ \A k \in DOMAIN system_state.running_actions :
          system_state.running_actions[k].ticks_elapsed >= 1

\* C15: in every snapshot, each listed event summary of awareness PresentOnly
\* has status InProgress, and a PresentOnly event of the scenario whose status
\* is NotStarted or Completed has no summary in the snapshot (event names are
\* unique within a scenario).
C15_PresentOnlyListedWhileRunning ==
    /\ \A k \in DOMAIN system_state.events :
          system_state.events[k].awareness = PRESENT_ONLY =>
             /\ system_state.events[k].status = IN_PROGRESS
             /\ \E j \in DOMAIN events :
                   /\ events[j].name = system_state.events[k].name
                   /\ events[j].status = IN_PROGRESS
    /\ \A j \in DOMAIN events :
          (events[j].awareness = PRESENT_ONLY /\ events[j].status # IN_PROGRESS) =>
             \A k \in DOMAIN system_state.events :
                system_state.events[k].name # events[j].name

\* A PresentOnly event in its second running tick is listed in the snapshot.
C15_Witness ==
    \E k \in DOMAIN system_state.events :
       /\ system_state.events[k].awareness = PRESENT_ONLY
       /\ system_state.events[k].status = IN_PROGRESS
       /\ system_state.events[k].info.ticks_elapsed = 2

\* C16: whenever the decision loop has built an observation that carries the
\* snapshot's events (first turn at tick 0 included), every Omniscient event
\* of the scenario that is not Completed is listed in it with its tick_start
\* and tick_duration, and no Completed Omniscient event is listed.
C16_OmniscientListedFromStart ==
    (pc_agent = "decide" /\ "events" \in DOMAIN observation.system_state) =>
       \A j \in DOMAIN events :
          events[j].awareness = OMNISCIENT =>
             (events[j].status # COMPLETED
                <=> \E k \in DOMAIN observation.system_state.events :
                       LET summary == observation.system_state.events[k]
                       IN /\ summary.name = events[j].name
                          /\ summary.awareness = OMNISCIENT
                          /\ summary.info.tick_start = events[j].tick_start
                          /\ summary.info.tick_duration = events[j].tick_duration)

\* C17: the tick never exceeds max_ticks; the world loop is about to call
\* Engine.step, and the decision loop is between its stop check and its
\* execute_action, only at ticks in 0..max_ticks-1; and every transition that
\* changes the engine's actions, events, objectives, domain state or snapshot
\* (a step or an admission) is taken at a tick in 0..max_ticks-1.
C17_NothingAtMaxTicks ==
    /\ [](current_tick <= MaxTicks)
    /\ [](pc_sim = "step" => current_tick \in 0..(MaxTicks - 1))
    /\ [](pc_agent \in {"decide", "dispatch"} => current_tick \in 0..(MaxTicks - 1))
    /\ [][<<tree_growth, actions, events, objectives, system_state>>'
             # <<tree_growth, actions, events, objectives, system_state>>
          => current_tick \in 0..(MaxTicks - 1)]_vars

\* The world loop has seen the stop condition at tick max_ticks, after its
\* last step, at tick max_ticks-1, started an action admitted at that tick.
C17_Witness ==
    /\ current_tick = MaxTicks
    /\ pc_sim = "done"
    /\ pc_agent = "acquire"
    /\ \E i \in DOMAIN actions : actions[i].tick_started = MaxTicks - 1

\* C18: when the decision names a tool that is neither a name of the
\* scenario's registry nor do_nothing, the decision loop's next statement
\* ends the loop with an error and changes nothing of the engine: the action
\* list, every action and the snapshot with its last_action_feedback are as
\* before; and once the loop has ended this way it takes no further turn: no
\* action is added and the feedback never changes again.
C18_UnknownToolRaises ==
    [][/\ (/\ pc_agent = "dispatch"
           /\ parsed_action # NoAction
           /\ parsed_action.tool_name
                 \notin {cls.name : cls \in action_registry} \cup {"do_nothing"}
           /\ pc_agent' # pc_agent)
          => /\ pc_agent' = "raised"
             /\ actions' = actions
             /\ system_state' = system_state
       /\ pc_agent = "raised"
          => /\ pc_agent' = "raised"
             /\ Len(actions') = Len(actions)
             /\ system_state'.last_action_feedback = system_state.last_action_feedback
      ]_vars

\* The decision loop has ended on an unknown tool name at a tick t >= 1, after
\* an earlier request of its own had been accepted.
C18_Witness ==
    /\ pc_agent = "raised"
    /\ parsed_action.tool_name = UnknownTool
    /\ ct >= 1
    /\ Len(actions) = 1
    /\ HasFeedback
    /\ Feedback.accepted
    /\ Feedback.tick < ct

\* C19: the observation the decision loop has just built (the states it was
\* built from are still current) has the tick it was given; on each side it
\* has exactly the fields of the state whose names are in the allow-list, or
\* every field when the allow-list is absent, each with the state's value;
\* building it changes neither the world state nor the snapshot; and building
\* it again from the same inputs gives an equal observation.
C19_ObservationFiltered ==
    /\ [](pc_agent = "decide" =>
            /\ observation.tick = ct
            /\ ct = current_tick
            /\ DOMAIN observation.world_state =
                  { f \in DOMAIN WorldState :
                       \/ observation_policy.world_keys.absent
                       \/ f \in observation_policy.world_keys.keys }
            /\ \A f \in DOMAIN observation.world_state :
                  observation.world_state[f] = WorldState[f]
            /\ DOMAIN observation.system_state =
                  { f \in DOMAIN system_state :
                       \/ observation_policy.system_keys.absent
                       \/ f \in observation_policy.system_keys.keys }
            /\ \A f \in DOMAIN observation.system_state :
                  observation.system_state[f] = system_state[f]
            /\ observation = Build(observation_policy, ct, WorldState, system_state))
    /\ [][(pc_agent = "check" /\ pc_agent' = "decide") =>
             UNCHANGED <<current_tick, tree_growth, system_state, observation_policy>>
         ]_vars

\* An observation built at a tick t >= 2 under allow-lists that keep one of
\* the three world fields and two of the four snapshot fields, the kept
\* snapshot fields both being non-empty.
C19_Witness ==
    /\ pc_agent = "decide"
    /\ ct >= 2
    /\ ~observation_policy.world_keys.absent
    /\ DOMAIN observation.world_state = {"current_tick"}
    /\ DOMAIN observation.system_state = {"events", "last_action_feedback"}
    /\ observation.system_state.events # <<>>
    /\ observation.system_state.last_action_feedback # <<>>

\* C20: an objective is not started before its tick_start: as long as no step
\* has run for a tick >= tick_start (the tick has not passed tick_start), the
\* objective's status is NotStarted.
C20_NotStartedBeforeTickStart ==
    \A k \in DOMAIN objectives :
       current_tick <= objectives[k].tick_start =>
          objectives[k].status = NOT_STARTED

\* C21: a loop that has stopped running, by its break on the stop condition
\* or by the unknown-tool error, does not hold the lock.
C21_StoppedLoopHoldsNoLock ==
    /\ pc_sim = "done" => lock # "sim"
    /\ pc_agent \in {"done", "raised"} => lock # "agent"

\* C22: from the building of the observation to the end of the resulting
\* execute_action the decision loop holds the lock, the tick is the one of the
\* observation, and no transition of the other loop changes the engine (no
\* Engine.step runs); the tick recorded in the feedback of the request is
\* therefore the tick of the observation.
C22_DecisionAtObservedTick ==
    /\ [](pc_agent \in {"decide", "dispatch"} =>
             /\ lock = "agent"
             /\ observation.tick = ct
             /\ current_tick = ct)
    /\ [][(pc_agent = "decide" \/ pc_agent = "dispatch") =>
             /\ current_tick' = current_tick
             /\ pc_sim' = pc_sim
             /\ (pc_agent' = pc_agent =>
                   UNCHANGED <<tree_growth, actions, events, objectives, system_state>>)
         ]_vars
    /\ [][(pc_agent = "dispatch" /\ pc_agent' = "release" /\ parsed_action # NoAction) =>
             /\ system_state'.last_action_feedback # <<>>
             /\ system_state'.last_action_feedback[1].tick = observation.tick
             /\ system_state'.last_action_feedback[1].requested_action
                   = parsed_action.tool_name
         ]_vars

\* A request decided on an observation of tick t >= 2 has been answered with
\* a rejection recorded at tick t, while the world loop waits for the lock.
C22_Witness ==
    /\ pc_agent = "release"
    /\ pc_sim = "acquire"
    /\ ct >= 2
    /\ observation.tick = ct
    /\ HasFeedback
    /\ Feedback.tick = ct
    /\ ~Feedback.accepted

RECURSIVE SumSeq(_)
\* The sum of a sequence of integers.
SumSeq(s) == IF s = <<>> THEN 0 ELSE s[1] + SumSeq(Tail(s))

\* What the step() hooks of the actions running before a step add to the
\* domain state in that step.
ActionEffects ==
    SumSeq([i \in 1..Len(actions) |->
               IF actions[i].status = IN_PROGRESS THEN actions[i].boost ELSE 0])

\* What the step() hooks of the events running in the step for the current
\* tick add to the domain state: those already InProgress and those due.
EventEffects ==
    SumSeq([k \in 1..Len(events) |->
               IF \/ events[k].status = IN_PROGRESS
                  \/ events[k].status = NOT_STARTED /\ current_tick >= events[k].tick_start
               THEN events[k].effect ELSE 0])

C24_StepsEqualTicksRequired ==
    \A i \in DOMAIN actions :
       actions[i].status = COMPLETED =>
          /\ actions[i].steps = actions[i].ticks_required
          /\ actions[i].tick_completed
                = actions[i].tick_started + actions[i].ticks_required - 1

\* C25: an event that has started was started by a step whose tick was at
\* least tick_start, and its step() hook ran in that very step; while it is
\* InProgress step() has run once per tick since its start; and a Completed
\* event was completed by the step for tick tick_started + tick_duration - 1
\* after exactly tick_duration invocations of step().
C25_EventStepsEqualDuration ==
    \A k \in DOMAIN events :
       LET e == events[k] IN
       /\ e.status = NOT_STARTED => e.tick_started = NoTick /\ e.steps = 0
       /\ e.status # NOT_STARTED =>
             /\ e.tick_started >= e.tick_start
             /\ e.steps >= 1
       /\ e.status = IN_PROGRESS =>
             /\ e.steps = LastSteppedTick - e.tick_started + 1
             /\ e.steps < e.tick_duration
       /\ e.status = COMPLETED =>
             /\ e.tick_completed = e.tick_started + e.tick_duration - 1
             /\ e.steps = e.tick_duration

\* An event of duration 3 has completed after its three step() invocations,
\* the first of them in the step that started it, at its tick_start.
C25_Witness ==
    \E k \in DOMAIN events :
       /\ events[k].tick_duration = 3
       /\ events[k].tick_start >= 1
       /\ events[k].tick_started = events[k].tick_start
       /\ events[k].status = COMPLETED
       /\ events[k].steps = 3
       /\ events[k].tick_completed = LastSteppedTick

\* C26: the action list only grows, and only by accepted requests: an
\* Engine.step keeps the list's length and the identity of every entry; an
\* execute_action keeps every earlier entry in place and appends exactly one
\* NotStarted action, of the requested class, when the feedback says accepted,
\* and nothing when it says rejected.
C26_ListGrowsByAccepted ==
    [][/\ Len(actions') >= Len(actions)
       /\ \A i \in DOMAIN actions :
             /\ actions'[i].name = actions[i].name
             /\ actions'[i].steps >= actions[i].steps
       /\ current_tick' # current_tick => Len(actions') = Len(actions)
       /\ \A cls \in ToolRegistry(action_registry), p \in Arguments :
             AgentRequest(cls, p) =>
                IF system_state'.last_action_feedback[1].accepted
                THEN /\ Len(actions') = Len(actions) + 1
                     /\ actions'[Len(actions')] = NewAction(cls)
                ELSE actions' = actions
      ]_vars

\* A request was rejected at tick 1 and, two steps later, the list still
\* holds only the one action accepted before it.
C26_Witness ==
    /\ HasFeedback
    /\ ~Feedback.accepted
    /\ Feedback.tick = 1
    /\ current_tick = 3
    /\ Len(actions) = 1
    /\ actions[1].tick_started = 0

\* C27: start() called on an action, an event or an objective whose status is
\* not NotStarted changes nothing of it: a Stopped or Completed action does
\* not return to InProgress, and an InProgress event keeps its tick_started.
C27_StartOnlyFromNotStarted ==
    [][/\ \A i \in DOMAIN actions :
             (CallActionStart(i) /\ actions[i].status # NOT_STARTED)
                => actions'[i] = actions[i]
       /\ \A k \in DOMAIN events :
             (CallEventStart(k) /\ events[k].status # NOT_STARTED)
                => events'[k] = events[k]
       /\ \A k \in DOMAIN objectives :
             (CallObjectiveStart(k) /\ objectives[k].status # NOT_STARTED)
                => objectives'[k] = objectives[k]
      ]_vars

\* C28: for every action and event the engine holds and every tick t,
\* has_elapsed_duration(t) is false when tick_started is unset and is
\* otherwise the truth value of (t - tick_started + 1) >= required duration,
\* ticks_required for an action and tick_duration for an event.
C28_HasElapsedDuration ==
    \A t \in 0..MaxTicks :
       /\ \A i \in DOMAIN actions :
             ActionHasElapsedDuration(actions[i], t)
                = (/\ actions[i].tick_started # NoTick
                   /\ t - actions[i].tick_started + 1 >= actions[i].ticks_required)
       /\ \A k \in DOMAIN events :
             EventHasElapsedDuration(events[k], t)
                = (/\ events[k].tick_started # NoTick
                   /\ t - events[k].tick_started + 1 >= events[k].tick_duration)

\* The engine holds an action without tick_started, an action for which the
\* current tick is exactly the first at which its duration has elapsed, and
\* an event that has started and whose duration has not elapsed at its start.
C28_Witness ==
    /\ \E i \in DOMAIN actions : actions[i].tick_started = NoTick
    /\ \E i \in DOMAIN actions :
          /\ actions[i].tick_started # NoTick
          /\ ActionHasElapsedDuration(actions[i], current_tick)
          /\ ~ActionHasElapsedDuration(actions[i], current_tick - 1)
    /\ \E k \in DOMAIN events :
          /\ events[k].tick_started # NoTick
          /\ ~EventHasElapsedDuration(events[k], events[k].tick_started)
          /\ EventHasElapsedDuration(events[k], events[k].tick_started + 1)

\* C29: tick_done is set exactly when the status is Completed or Failed; an
\* objective that is Completed or Failed is left as it is by every later
\* transition; and an objective that is NotStarted is not judged: a step
\* starts it at most, leaving tick_done unset.
C29_ObjectiveFrozen ==
    /\ [](\A k \in DOMAIN objectives :
             objectives[k].tick_done # NoTick
                <=> objectives[k].status \in {COMPLETED, FAILED})
    /\ [][\A k \in DOMAIN objectives :
             /\ objectives[k].status \in {COMPLETED, FAILED}
                   => objectives'[k] = objectives[k]
             /\ objectives[k].status = NOT_STARTED
                   => /\ objectives'[k].status \in {NOT_STARTED, IN_PROGRESS}
                      /\ objectives'[k].tick_done = NoTick
             /\ objectives[k].status = IN_PROGRESS
                   => \/ objectives'[k] = objectives[k]
                      \/ /\ objectives'[k].status \in {COMPLETED, FAILED}
                         /\ objectives'[k].tick_done = current_tick
         ]_vars

\* One objective Failed and another Completed, each passed over by at least
\* one later step.
C29_Witness ==
    /\ \E k \in DOMAIN objectives :
          /\ objectives[k].status = FAILED
          /\ objectives[k].tick_done < LastSteppedTick
    /\ \E k \in DOMAIN objectives :
          /\ objectives[k].status = COMPLETED
          /\ objectives[k].tick_done < LastSteppedTick

\* C30: when check_completion runs on an InProgress objective (in a step, on
\* the domain state the step leaves), the objective becomes Completed
\* whenever is_completed holds, also when is_failed holds with it; it becomes
\* Failed exactly when is_failed holds and is_completed does not; and it
\* stays InProgress when neither holds.
C30_CompletionBeforeFailure ==
    [][current_tick' = current_tick + 1 =>
         \A k \in DOMAIN objectives :
            objectives[k].status = IN_PROGRESS =>
               LET done == IsCompleted(objectives[k], tree_growth')
                   failed == IsFailed(objectives[k], tree_growth', current_tick)
               IN /\ (done /\ failed) => objectives'[k].status = COMPLETED
                  /\ objectives'[k].status = COMPLETED <=> done
                  /\ objectives'[k].status = FAILED <=> (failed /\ ~done)
                  /\ objectives'[k].status = IN_PROGRESS <=> (~done /\ ~failed)
      ]_vars

\* An objective whose is_failed held at the tick it was judged (the tick was
\* past its max_ticks) was made Completed at that tick, its target reached.
C30_Witness ==
    \E k \in DOMAIN objectives :
       /\ objectives[k].name = "DeadlineObjective"
       /\ objectives[k].status = COMPLETED
       /\ objectives[k].tick_done > objectives[k].max_ticks
       /\ tree_growth >= objectives[k].target_growth

----------------------------------------------------------------------------
\* The snapshot's action and objective lists

\* The indices of the InProgress actions of the engine's list.
RunningIndices == { i \in DOMAIN actions : actions[i].status = IN_PROGRESS }

\* The index of the k-th InProgress action of the list, in list order.
KthRunning(k) ==
    CHOOSE i \in RunningIndices : Cardinality({ j \in RunningIndices : j <= i }) = k

\* The snapshot lists the InProgress actions of the list, each once and in
\* list order, and every objective once.
SnapshotListsRunning ==
    /\ Len(system_state.running_actions) = Cardinality(RunningIndices)
    /\ \A k \in 1..Len(system_state.running_actions) :
          LET s == system_state.running_actions[k]
              a == actions[KthRunning(k)]
          IN /\ s.status = IN_PROGRESS
             /\ s.name = a.name
             /\ s.tick_started = a.tick_started
             /\ s.priority = a.priority
             /\ s.concurrency_tag = a.concurrency_tag
    /\ Len(system_state.objectives) = Len(objectives)
    /\ \A k \in 1..Len(objectives) :
          /\ system_state.objectives[k].name = objectives[k].name
          /\ system_state.objectives[k].tick_start = objectives[k].tick_start

\* C31: after every completed Engine.step and every completed execute_action
\* the snapshot's running_actions holds exactly one summary for each
\* InProgress action of the list, in list order, and none for a NotStarted,
\* Stopped or Completed action; its objectives list holds one summary per
\* objective.
C31_SnapshotLists == [][SnapshotListsRunning']_vars

\* A step or request has completed, the list holds a Stopped, an InProgress
\* and a NotStarted action, and the snapshot lists the InProgress one only.
C31_Witness ==
    /\ HasFeedback
    /\ current_tick > 0
    /\ \E i, j, k \in DOMAIN actions :
          /\ actions[i].status = STOPPED
          /\ actions[j].status = IN_PROGRESS
          /\ actions[k].status = NOT_STARTED
    /\ Len(system_state.running_actions) = 1
    /\ Len(system_state.objectives) = Len(objectives)

\* C32: for every action of the engine's list tick_started is unset exactly
\* while the status is NotStarted, is set to the current tick by the step that
\* moves the action to InProgress, and never changes afterwards.
C32_TickStartedOnce ==
    [][/\ \A i \in DOMAIN actions' :
             (actions'[i].tick_started = NoTick) <=> (actions'[i].status = NOT_STARTED)
       /\ \A i \in DOMAIN actions :
             /\ i \in DOMAIN actions'
             /\ (actions[i].status = NOT_STARTED /\ actions'[i].status # NOT_STARTED)
                   => /\ current_tick' = current_tick + 1
                      /\ actions'[i].status = IN_PROGRESS
                      /\ actions'[i].tick_started = current_tick
             /\ (actions[i].tick_started # NoTick)
                   => actions'[i].tick_started = actions[i].tick_started]_vars

\* The list holds an action that completed and one that was stopped, both
\* still carrying the tick of the step that started them, and one that has not
\* started yet.
C32_Witness ==
    \E i, j, k \in DOMAIN actions :
        /\ actions[i].status = COMPLETED
        /\ actions[i].tick_started = actions[i].tick_completed - 1
        /\ actions[j].status = STOPPED
        /\ actions[j].tick_started # NoTick
        /\ actions[j].tick_started < actions[j].tick_stopped
        /\ actions[k].status = NOT_STARTED
        /\ actions[k].tick_started = NoTick

\* C33: two consecutive decision turns of the runner are separated by
\* agent_tick_interval ticks: between one turn (execute_action or idle) and
\* the next observation the world loop performs at least agent_tick_interval
\* steps, and the first decision turn happens only after agent_delay_ticks
\* steps. ct is the tick of the previous observation, and the world loop
\* performs one step per tick.
C33_TurnsSeparatedByInterval ==
    [][(pc_agent = "check" /\ pc_agent' = "decide")
          => IF observation = NoObservation
             THEN current_tick >= AgentDelayTicks
             ELSE current_tick - ct >= AgentTickInterval]_vars

\* C34: for every action of the engine's list tick_stopped is set if and only
\* if the status is Stopped; only InProgress actions are ever stopped (a
\* NotStarted action is never stopped by a preemption), and in the runner
\* tick_stopped is strictly greater than tick_started.
C34_StoppedTick ==
    [][/\ \A i \in DOMAIN actions' :
             (actions'[i].tick_stopped # NoTick) <=> (actions'[i].status = STOPPED)
       /\ \A i \in DOMAIN actions :
             (actions[i].status # STOPPED /\ actions'[i].status = STOPPED)
                => /\ actions[i].status = IN_PROGRESS
                   /\ pc_agent = "dispatch"
       /\ \A i \in DOMAIN actions' :
             (actions'[i].status = STOPPED)
                => /\ actions'[i].tick_started # NoTick
                   /\ actions'[i].tick_stopped > actions'[i].tick_started]_vars

\* In the runner a request has preempted a running action while an action
\* accepted before it in the same tick was still NotStarted: the running one
\* is Stopped with its tick, the pending one is left alone.
C34_Witness ==
    /\ pc_agent = "release"
    /\ HasFeedback
    /\ Feedback.reason = "accepted_preempted_lower_priority"
    /\ \E i, j \in DOMAIN actions :
          /\ actions[i].status = STOPPED
          /\ actions[i].tick_stopped = current_tick
          /\ actions[i].tick_started < current_tick
          /\ actions[j].status = NOT_STARTED
          /\ actions[j].tick_stopped = NoTick
          /\ j < Len(actions)

\* C35: Engine.step never modifies last_action_feedback: it is absent before
\* the first request, and between two execute_action calls the snapshot keeps
\* reporting the feedback of the most recent request with its recorded tick,
\* reason and summaries unchanged, however many steps run in between. (The
\* first request meets an empty list and is accepted, so the list is empty
\* exactly before the first request.)
C35_StepKeepsFeedback ==
    [][/\ (actions' = <<>>) => (system_state'.last_action_feedback = <<>>)
       /\ (current_tick' = current_tick + 1)
             => (system_state'.last_action_feedback = system_state.last_action_feedback)
       /\ (\A cls \in ToolRegistry(action_registry), p \in Arguments :
              ~AgentRequest(cls, p))
             => (system_state'.last_action_feedback = system_state.last_action_feedback)]_vars

\* Two or more steps after a request that preempted a running action, the
\* snapshot still reports that request: its tick, its reason and the summary
\* of the preempted action as it was, while nothing is running any more.
C35_Witness ==
    /\ HasFeedback
    /\ Feedback.reason = "accepted_preempted_lower_priority"
    /\ Feedback.tick + 2 <= current_tick
    /\ Len(Feedback.preempted) = 1
    /\ Feedback.preempted[1].tick_stopped = Feedback.tick
    /\ Feedback.started_action[1].status = NOT_STARTED
    /\ system_state.running_actions = <<>>
    /\ \E i \in DOMAIN actions :
          /\ actions[i].name = Feedback.requested_action
          /\ actions[i].status = COMPLETED

\* Action i of the list has ended.
Settled(i) == i \in DOMAIN actions /\ actions[i].status \in {COMPLETED, STOPPED}

\* C36: with max_ticks unbounded, a world loop that keeps being scheduled and
\* decision calls that always return, every accepted action eventually becomes
\* Completed or Stopped and every event eventually becomes Completed. The
\* actions followed are those accepted while the ticks the longest action
\* needs (3) are still within the ticks the model follows.
C36_EverythingSettles ==
    /\ \A i \in 1..MaxActions :
          (i \in DOMAIN actions /\ current_tick + 3 <= HorizonTicks) ~> Settled(i)
    /\ \A k \in 1..2 : <>(events[k].status = COMPLETED)

\* The action summaries the snapshot publishes: those of running_actions and
\* those of the feedback (conflicts, preempted, started_action).
PublishedActionSummaries ==
    { system_state.running_actions[k] : k \in DOMAIN system_state.running_actions }
    \cup (IF HasFeedback
          THEN { Feedback.conflicts[k] : k \in DOMAIN Feedback.conflicts }
               \cup { Feedback.preempted[k] : k \in DOMAIN Feedback.preempted }
               \cup { Feedback.started_action[k] : k \in DOMAIN Feedback.started_action }
          ELSE {})

\* C37: in every action summary published in running_actions or in
\* last_action_feedback, 0 <= ticks_elapsed <= ticks_required and
\* ticks_elapsed + ticks_remaining = ticks_required.
C37_SummaryTicks ==
    \A s \in PublishedActionSummaries :
        /\ 0 <= s.ticks_elapsed
        /\ s.ticks_elapsed <= s.ticks_required
        /\ s.ticks_elapsed + s.ticks_remaining = s.ticks_required

====
